---- MODULE Spec2Model ----
(***************************************************************************)
(* Model of the flickr-project CLI: main() builds a FlickParser, enters    *)
(* its context, runs parse() (the pagination loop) and leaves the context  *)
(* through __exit__.  The remote search API, the folium map, the artifact  *)
(* file and the selenium driver are modelled by what the code does to them.*)
(***************************************************************************)
EXTENDS Integers, Sequences, FiniteSets, TLC

(* ------------------------------- bounds -------------------------------- *)
\* largest total page count the search API reports
MaxPages == 4
\* largest number of records on one page (FLICKR_PER_PAGE scaled down)
MaxPerPage == 2
\* largest --limit given on the command line (0 stands for "no limit")
MaxLimit == 3
\* largest --refresh_map_after given on the command line
MaxRefresh == 2

VARIABLES
    limit,              \* self.limit; 0 models None (main.py:54 maps 0 to None)
    refresh_map_after,  \* self.refresh_map_after
    srvPages,           \* environment: the "pages" field the API reports
    srvSize,            \* environment: number of records on each page
    pc,                 \* position of main(): start, constructed, parse,
                        \*   process, fetch, exit, done
    driver,             \* the Live Viewer: none, open, closed
    viewerShows,        \* the pins the viewer displayed at its last (re)load
    artifactExists,     \* whether a file exists at PATH_TO_MAP
    artifact,           \* the pins in the file at PATH_TO_MAP
    savedAtRefresh,     \* the pins written by the last save before teardown
    folium_map,         \* self.folium_map: the in-memory pins, in order
    current_limit,      \* self.current_limit
    photos,             \* the local "photos" of parse(): records of the page held
    total_pages,        \* the local "total_pages" of parse()
    page,               \* the loop variable "page" of parse()
    idx,                \* records of "photos" already consumed by the for loop
    fetched,            \* the "page" query parameter of every search issued
    reloads,            \* number of driver.refresh() calls issued
    saves,              \* number of folium_map.save() calls
    exc,                \* the exception that left parse(), or "none"
    errlog,             \* exception kinds written by log_error, in order
    exitCode            \* -1 while running, 0 normal exit, 1 uncaught exception

vars == <<limit, refresh_map_after, srvPages, srvSize, pc, driver, viewerShows,
          artifactExists, artifact, savedAtRefresh, folium_map, current_limit,
          photos, total_pages, page, idx, fetched, reloads, saves, exc, errlog,
          exitCode>>

(* ------------------------------ helpers -------------------------------- *)
Range(s) == {s[i] : i \in 1..Len(s)}

\* the records the API holds on page p, in the order it returns them
PageRecords(p, n) == [i \in 1..n |-> <<p, i>>]

\* what a search can come back with
FetchOutcomes ==
    {"ok", "flickr_error", "no_photo_key", "photo_not_list", "no_pages_key",
     "pages_not_int"}

\* the exception get_photos leaves with for each outcome
GetPhotosError(out) ==
    CASE out = "flickr_error" -> "FlickrError"
      [] out = "no_photo_key" -> "AssertionError"
      [] out = "photo_not_list" -> "AssertionError"
      [] out = "no_pages_key" -> "KeyError"
      [] out = "pages_not_int" -> "AssertionError"
      [] OTHER -> "none"

\* what get_photos itself writes to stderr: only the FlickrError branch logs
GetPhotosLog(out) == IF out = "flickr_error" THEN <<"FlickrError">> ELSE <<>>

\* variant of LimitReached with the comparison off by one
LimitReachedLate(lim, cur) == lim # 0 /\ cur > lim

\* "self.limit and self.current_limit >= self.limit"
LimitReached(lim, cur) == lim # 0 /\ cur >= lim

\* variant of RefreshDue that tests the count before its increment
RefreshDueBeforeIncrement(rfa, cur) == rfa # 0 /\ (cur - 1) % rfa = 0

\* "bool(self.refresh_map_after) and self.current_limit % self.refresh_map_after == 0"
RefreshDue(rfa, cur) == rfa # 0 /\ cur % rfa = 0

\* variant of PageRefreshDue with the test inverted
PageRefreshDueInverted(rfa) == rfa # 0

\* "not bool(self.refresh_map_after)"
PageRefreshDue(rfa) == rfa = 0

\* "start = 0 if total_pages == 1 else 2"
StartPage(tp) == IF tp = 1 THEN 0 ELSE 2

\* "range(start, total_pages)"
PageRange(tp) == StartPage(tp)..(tp - 1)

(* ------------------------------- Init ---------------------------------- *)
Init ==
    /\ limit \in 0..MaxLimit
    /\ refresh_map_after \in 0..MaxRefresh
    /\ srvPages \in 1..MaxPages
    /\ srvSize \in [1..MaxPages -> 0..MaxPerPage]
    /\ \A p \in 1..MaxPages : p > srvPages => srvSize[p] = 0
    /\ pc = "start"
    /\ driver = "none"
    /\ viewerShows = <<>>
    /\ artifactExists = FALSE
    /\ artifact = <<>>
    /\ savedAtRefresh = <<>>
    /\ folium_map = <<>>
    /\ current_limit = 0
    /\ photos = <<>>
    /\ total_pages = 0
    /\ page = 0
    /\ idx = 0
    /\ fetched = <<>>
    /\ reloads = 0
    /\ saves = 0
    /\ exc = "none"
    /\ errlog = <<>>
    /\ exitCode = -1

(* ------------------------------ actions -------------------------------- *)
\* FlickParser.__init__: the empty map is saved, the viewer is started on it,
\* then the API client is built
Construct ==
    /\ pc = "start"
    /\ artifactExists' = TRUE
    /\ artifact' = <<>>
    /\ savedAtRefresh' = <<>>
    /\ saves' = saves + 1
    /\ \E out \in {"ok", "driver_error", "api_error"} :
        /\ driver' = IF out = "driver_error" THEN "none" ELSE "open"
        /\ pc' = IF out = "ok" THEN "constructed" ELSE "done"
        /\ exitCode' = IF out = "ok" THEN -1 ELSE 1
        /\ errlog' = IF out = "api_error" THEN <<"FlickrError">> ELSE errlog
    /\ UNCHANGED <<limit, refresh_map_after, srvPages, srvSize, viewerShows,
                   folium_map, current_limit, photos, total_pages, page, idx,
                   fetched, reloads, exc>>

\* FlickParser.__enter__: the map file, which exists, is removed
Enter ==
    /\ pc = "constructed"
    /\ artifactExists' = FALSE
    /\ artifact' = <<>>
    /\ pc' = "parse"
    /\ UNCHANGED <<limit, refresh_map_after, srvPages, srvSize, driver,
                   viewerShows, savedAtRefresh, folium_map, current_limit,
                   photos, total_pages, page, idx, fetched, reloads, saves, exc,
                   errlog, exitCode>>

\* parse(), from the first get_photos to the entry of the for loop
FetchFirst ==
    /\ pc = "parse"
    /\ fetched' = Append(fetched, 1)
    /\ \E out \in FetchOutcomes :
        /\ exc' = GetPhotosError(out)
        /\ errlog' = errlog \o GetPhotosLog(out)
        /\ IF out # "ok"
             THEN /\ pc' = "exit"
                  /\ UNCHANGED <<photos, total_pages, page, idx>>
             ELSE /\ photos' = PageRecords(1, srvSize[1])
                  /\ idx' = 0
                  /\ IF srvSize[1] = 0
                       THEN /\ pc' = "exit"
                            /\ UNCHANGED <<total_pages, page>>
                       ELSE /\ total_pages' = srvPages
                            /\ IF PageRange(srvPages) = {}
                                 THEN /\ pc' = "exit"
                                      /\ UNCHANGED page
                                 ELSE /\ pc' = "process"
                                      /\ page' = StartPage(srvPages)
    /\ UNCHANGED <<limit, refresh_map_after, srvPages, srvSize, driver,
                   viewerShows, artifactExists, artifact, savedAtRefresh,
                   folium_map, current_limit, reloads, saves, exitCode>>

\* variant of MapRefreshSave that leaves the file as it is
MapRefreshNoSave(pins) ==
    UNCHANGED <<artifactExists, artifact, savedAtRefresh, saves>>

\* map_refresh, "self.folium_map.save(PATH_TO_MAP)": the file is overwritten
\* with the pins of the map
MapRefreshSave(pins) ==
    /\ artifactExists' = TRUE
    /\ artifact' = pins
    /\ savedAtRefresh' = pins
    /\ saves' = saves + 1

\* one step of process_photo_page: the empty-page test, or one iteration of
\* the for loop with whatever refresh follows it
ProcessPhoto ==
    /\ pc = "process"
    /\ IF Len(photos) = 0 \/ LimitReached(limit, current_limit)
         THEN /\ pc' = "exit"
              /\ UNCHANGED <<driver, viewerShows, artifactExists, artifact,
                             savedAtRefresh, folium_map, current_limit, idx,
                             reloads, saves, exc>>
         ELSE LET pins == Append(folium_map, photos[idx + 1])
                  cur == current_limit + 1
                  last == idx + 1 = Len(photos)
                  refresh == RefreshDue(refresh_map_after, cur)
                               \/ (last /\ PageRefreshDue(refresh_map_after))
              IN /\ folium_map' = pins
                 /\ current_limit' = cur
                 /\ idx' = idx + 1
                 /\ IF refresh
                      THEN /\ MapRefreshSave(pins)
                           /\ reloads' = reloads + 1
                           /\ \E ok \in BOOLEAN :
                               IF ok
                                 THEN /\ viewerShows' = pins
                                      /\ pc' = IF last THEN "fetch" ELSE "process"
                                      /\ UNCHANGED exc
                                 ELSE /\ exc' = "WebDriverException"
                                      /\ pc' = "exit"
                                      /\ UNCHANGED viewerShows
                      ELSE /\ pc' = IF last THEN "fetch" ELSE "process"
                           /\ UNCHANGED <<viewerShows, artifactExists, artifact,
                                          savedAtRefresh, reloads, saves, exc>>
                 /\ UNCHANGED driver
    /\ UNCHANGED <<limit, refresh_map_after, srvPages, srvSize, photos,
                   total_pages, page, fetched, errlog, exitCode>>

\* variant of FetchNext that issues the search again after a FlickrError
FetchNextRetry ==
    /\ pc = "fetch"
    /\ fetched' = Append(fetched, page)
    /\ \E out \in FetchOutcomes :
        /\ exc' = GetPhotosError(out)
        /\ errlog' = errlog \o GetPhotosLog(out)
        /\ IF out = "flickr_error"
             THEN UNCHANGED <<pc, photos, page, idx>>
             ELSE IF out # "ok"
             THEN /\ pc' = "exit"
                  /\ UNCHANGED <<photos, page, idx>>
             ELSE /\ \E n \in 0..MaxPerPage :
                       /\ page \in 1..MaxPages => n = srvSize[page]
                       /\ photos' = PageRecords(page, n)
                  /\ idx' = 0
                  /\ IF page + 1 \in PageRange(total_pages)
                       THEN /\ pc' = "process"
                            /\ page' = page + 1
                       ELSE /\ pc' = "exit"
                            /\ UNCHANGED page
    /\ UNCHANGED <<limit, refresh_map_after, srvPages, srvSize, driver,
                   viewerShows, artifactExists, artifact, savedAtRefresh,
                   folium_map, current_limit, total_pages, reloads, saves,
                   exitCode>>

\* variant of FetchNext whose query still carries the page before the
\* loop variable
FetchNextStalePage ==
    /\ pc = "fetch"
    /\ fetched' = Append(fetched, page - 1)
    /\ \E out \in FetchOutcomes :
        /\ exc' = GetPhotosError(out)
        /\ errlog' = errlog \o GetPhotosLog(out)
        /\ IF out # "ok"
             THEN /\ pc' = "exit"
                  /\ UNCHANGED <<photos, page, idx>>
             ELSE /\ \E n \in 0..MaxPerPage :
                       /\ page - 1 \in 1..MaxPages => n = srvSize[page - 1]
                       /\ photos' = PageRecords(page - 1, n)
                  /\ idx' = 0
                  /\ IF page + 1 \in PageRange(total_pages)
                       THEN /\ pc' = "process"
                            /\ page' = page + 1
                       ELSE /\ pc' = "exit"
                            /\ UNCHANGED page
    /\ UNCHANGED <<limit, refresh_map_after, srvPages, srvSize, driver,
                   viewerShows, artifactExists, artifact, savedAtRefresh,
                   folium_map, current_limit, total_pages, reloads, saves,
                   exitCode>>

\* parse(), "get next page": the search with page = the loop variable, then
\* the step of the for loop to its next value
FetchNext ==
    /\ pc = "fetch"
    /\ fetched' = Append(fetched, page)
    /\ \E out \in FetchOutcomes :
        /\ exc' = GetPhotosError(out)
        /\ errlog' = errlog \o GetPhotosLog(out)
        /\ IF out # "ok"
             THEN /\ pc' = "exit"
                  /\ UNCHANGED <<photos, page, idx>>
             ELSE /\ \E n \in 0..MaxPerPage :
                       /\ page \in 1..MaxPages => n = srvSize[page]
                       /\ photos' = PageRecords(page, n)
                  /\ idx' = 0
                  /\ IF page + 1 \in PageRange(total_pages)
                       THEN /\ pc' = "process"
                            /\ page' = page + 1
                       ELSE /\ pc' = "exit"
                            /\ UNCHANGED page
    /\ UNCHANGED <<limit, refresh_map_after, srvPages, srvSize, driver,
                   viewerShows, artifactExists, artifact, savedAtRefresh,
                   folium_map, current_limit, total_pages, reloads, saves,
                   exitCode>>

\* what every variant of __exit__ leaves alone
ExitFrame ==
    UNCHANGED <<limit, refresh_map_after, srvPages, srvSize, savedAtRefresh,
                folium_map, current_limit, photos, total_pages, page, idx,
                fetched, exc>>

\* variant of Exit that returns a false value, so the exception propagates
ExitPropagates ==
    /\ pc = "exit"
    /\ pc' = "done"
    /\ \E quit \in BOOLEAN :
        IF quit
          THEN /\ driver' = "closed"
               /\ artifactExists' = TRUE
               /\ artifact' = folium_map
               /\ saves' = saves + 1
               /\ errlog' = IF exc # "none" THEN Append(errlog, exc) ELSE errlog
               /\ exitCode' = IF exc # "none" THEN 1 ELSE 0
          ELSE /\ exitCode' = 1
               /\ UNCHANGED <<driver, artifactExists, artifact, saves, errlog>>
    /\ UNCHANGED <<viewerShows, reloads>>
    /\ ExitFrame

\* variant of Exit that does not save the map
ExitWithoutSave ==
    /\ pc = "exit"
    /\ pc' = "done"
    /\ \E quit \in BOOLEAN :
        IF quit
          THEN /\ driver' = "closed"
               /\ errlog' = IF exc # "none" THEN Append(errlog, exc) ELSE errlog
               /\ exitCode' = 0
               /\ UNCHANGED <<artifactExists, artifact, saves>>
          ELSE /\ exitCode' = 1
               /\ UNCHANGED <<driver, artifactExists, artifact, saves, errlog>>
    /\ UNCHANGED <<viewerShows, reloads>>
    /\ ExitFrame

\* variant of Exit that saves and refreshes the driver before quitting it
ExitReloadsFirst ==
    /\ pc = "exit"
    /\ pc' = "done"
    /\ artifactExists' = TRUE
    /\ artifact' = folium_map
    /\ saves' = saves + 1
    /\ reloads' = reloads + 1
    /\ viewerShows' = folium_map
    /\ \E quit \in BOOLEAN :
        IF quit
          THEN /\ driver' = "closed"
               /\ errlog' = IF exc # "none" THEN Append(errlog, exc) ELSE errlog
               /\ exitCode' = 0
          ELSE /\ exitCode' = 1
               /\ UNCHANGED <<driver, errlog>>
    /\ ExitFrame

\* FlickParser.__exit__: quit the driver, save the map, log the exception if
\* any, and return True
Exit ==
    /\ pc = "exit"
    /\ pc' = "done"
    /\ \E quit \in BOOLEAN :
        IF quit
          THEN /\ driver' = "closed"
               /\ artifactExists' = TRUE
               /\ artifact' = folium_map
               /\ saves' = saves + 1
               /\ errlog' = IF exc # "none" THEN Append(errlog, exc) ELSE errlog
               /\ exitCode' = 0
          ELSE /\ exitCode' = 1
               /\ UNCHANGED <<driver, artifactExists, artifact, saves, errlog>>
    /\ UNCHANGED <<viewerShows, reloads>>
    /\ ExitFrame

Next == Construct \/ Enter \/ FetchFirst \/ ProcessPhoto \/ FetchNext \/ Exit

Spec == Init /\ [][Next]_vars

(* --------------------------- derived values ---------------------------- *)
RECURSIVE RecordsUpTo(_)
\* number of records the API holds on pages 1..n
RecordsUpTo(n) == IF n = 0 THEN 0 ELSE RecordsUpTo(n - 1) + srvSize[n]

TotalRecords == RecordsUpTo(srvPages)

AllPagesNonEmpty == \A p \in 1..srvPages : srvSize[p] > 0

\* parse() has returned without an exception
ParseReturned == pc = "exit" /\ exc = "none"

\* the exceptions a failed fetch or a failed validation raises
FetchErrors == {"FlickrError", "AssertionError", "KeyError"}

\* pages every record of which is a pin of the map
FullyPinnedPages ==
    {p \in 1..srvPages :
        srvSize[p] > 0 /\ \A i \in 1..srvSize[p] : <<p, i>> \in Range(folium_map)}

(* ------------------------------- claims -------------------------------- *)

\* C1: with no limit and every page non-empty, when parse() returns the
\* number of processed records equals the number of records on pages
\* 1..totalPages.
C1_AllRecordsPinned ==
    (ParseReturned /\ limit = 0 /\ AllPagesNonEmpty)
        => current_limit = TotalRecords

\* C2: with a limit > 0, the processed count never exceeds the limit, in
\* every reachable state.
C2_CountWithinLimit == limit > 0 => current_limit <= limit

\* C2 witness: the loop was stopped by the limit in the middle of the second
\* page processed, with the count equal to the limit.
C2_Witness ==
    /\ ParseReturned
    /\ limit > 0
    /\ current_limit = limit
    /\ Len(fetched) = 2
    /\ 0 < idx
    /\ idx < Len(photos)

\* C3: with a limit > 0 and at least limit records on pages 1..totalPages,
\* the processed count equals the limit when parse() returns.
C3_LimitReachedExactly ==
    (ParseReturned /\ limit > 0 /\ AllPagesNonEmpty /\ TotalRecords >= limit)
        => current_limit = limit

\* C4 (as stated): after a failed fetch or a failed validation the run ends
\* in a failed, non-zero outcome.
C4_ErrorSurfaced ==
    (pc = "done" /\ exc \in FetchErrors) => exitCode # 0

\* C4 (amended): after a failed fetch or a failed validation the teardown
\* logs the error and suppresses it: the run ends with exit code 0 exactly
\* when the teardown closed the viewer, and then the last line of the error
\* log is that error.
C4_ErrorSuppressed ==
    (pc = "done" /\ exc \in FetchErrors)
        => /\ exitCode = 0 <=> driver = "closed"
           /\ driver = "closed"
                => (Len(errlog) > 0 /\ errlog[Len(errlog)] = exc)

\* C4 witness: a page failed validation after pins were added, and the run
\* ended with exit code 0.
C4_Witness ==
    /\ pc = "done"
    /\ exc = "AssertionError"
    /\ current_limit > 0
    /\ exitCode = 0

\* C5: once a fetch has failed, no step issues another fetch or adds a pin.
C5_NoRetryAfterFetchFailure ==
    [][exc = "FlickrError"
         => (fetched' = fetched /\ folium_map' = folium_map)]_vars

\* C5 witness: the second fetch failed while a later page was still due, and
\* the run ended.
C5_Witness ==
    /\ pc = "done"
    /\ exc = "FlickrError"
    /\ Len(fetched) = 2
    /\ page + 1 \in PageRange(total_pages)
    /\ current_limit > 0

\* C6 (as stated): after a run aborted by a fetch failure, the artifact holds
\* exactly the pins of the last save before the failure.
C6_OnlyLastRefreshPersisted ==
    (pc = "done" /\ exc = "FlickrError" /\ driver = "closed")
        => (artifactExists /\ artifact = savedAtRefresh)

\* C6 (amended): after a run aborted by a fetch failure, the artifact holds
\* every pin added before the failure, those added after the last refresh
\* included, because the teardown saves the whole map; only when closing the
\* viewer fails is there no teardown save, and then the file is what the
\* last refresh of the loop wrote, or is absent if there was none.
C6_AllPinsPersisted ==
    (pc = "done" /\ exc = "FlickrError")
        => IF driver = "closed"
             THEN artifactExists /\ artifact = folium_map
             ELSE /\ artifactExists <=> reloads > 0
                  /\ artifactExists => artifact = savedAtRefresh

\* C6 witness: a fetch failed after a pin was added past the last refresh,
\* and the artifact holds that pin.
C6_Witness ==
    /\ pc = "done"
    /\ exc = "FlickrError"
    /\ driver = "closed"
    /\ reloads > 0
    /\ Len(savedAtRefresh) < Len(folium_map)
    /\ artifact = folium_map

\* C7: a failed viewer reload never aborts pagination: a step of the loop
\* that issues a reload goes on to the next record or to the next fetch.
C7_ReloadFailureContinues ==
    [][(pc = "process" /\ reloads' = reloads + 1)
         => pc' \in {"process", "fetch"}]_vars

\* C8: when the run has ended, a viewer that was opened is closed and the
\* artifact holds the map.
C8_ViewerClosedAtEnd ==
    (pc = "done" /\ driver # "none")
        => (driver = "closed" /\ artifactExists /\ artifact = folium_map)

\* C9 (as stated): after normal termination of the loop the last thing the
\* viewer loaded, before it was closed, is an artifact with every pin added.
C9_FinalReloadShowsAllPins ==
    (pc = "done" /\ exc = "none" /\ driver = "closed")
        => viewerShows = folium_map

\* C9 (amended): on normal termination of the loop the teardown issues no
\* viewer reload; it closes the viewer first and only then saves the final
\* map, so the viewer's last load is the one of the last reload of the loop.
C9_NoFinalReload ==
    [][(pc = "exit" /\ exc = "none")
         => /\ reloads' = reloads
            /\ viewerShows' = viewerShows
            /\ saves' # saves
                 => (driver' = "closed" /\ artifactExists'
                       /\ artifact' = folium_map)]_vars

\* C9 witness: the loop ended on the limit in the middle of a page, the
\* teardown saved every pin, and the viewer never loaded the last one.
C9_Witness ==
    /\ pc = "done"
    /\ exc = "none"
    /\ driver = "closed"
    /\ limit > 0
    /\ current_limit = limit
    /\ artifact = folium_map
    /\ Len(viewerShows) < Len(folium_map)

\* C10: with refreshAfter = 0 the number of reloads issued in the loop is the
\* number of pages whose records were all pinned.
C10_ReloadPerFullPage ==
    refresh_map_after = 0 => reloads = Cardinality(FullyPinnedPages)

\* C10 witness: one page was fully processed and reloaded, and the next was
\* abandoned in its middle on the limit without a reload.
C10_Witness ==
    /\ refresh_map_after = 0
    /\ ParseReturned
    /\ reloads = 1
    /\ Len(fetched) = 2
    /\ 0 < idx
    /\ idx < Len(photos)
    /\ LimitReached(limit, current_limit)

RECURSIVE RecordsOfPages(_)
\* the records of pages 1..n, page after page, each in the order received
RecordsOfPages(n) ==
    IF n = 0 THEN <<>>
    ELSE RecordsOfPages(n - 1) \o PageRecords(n, srvSize[n])

IsPrefix(s, t) == Len(s) <= Len(t) /\ \A i \in 1..Len(s) : s[i] = t[i]

\* the first search came back valid
FirstFetchOk == Len(fetched) >= 1 /\ exc \notin FetchErrors

\* C11: with refreshAfter = k > 0, a step issues a reload if and only if it
\* adds a pin that makes the processed count a multiple of k, and it issues
\* at most one; so no reload comes from a page boundary.
C11_ReloadOnMultiples ==
    [][refresh_map_after > 0
         => /\ reloads' \in {reloads, reloads + 1}
            /\ reloads' = reloads + 1
                 <=> /\ current_limit' = current_limit + 1
                     /\ folium_map' # folium_map
                     /\ current_limit' % refresh_map_after = 0]_vars

\* C11 witness: with k = 2, the first page ended after one pin without a
\* reload, and the one reload came in the middle of the second page.
C11_Witness ==
    /\ refresh_map_after = 2
    /\ current_limit = 3
    /\ reloads = 1
    /\ Len(fetched) = 2
    /\ srvSize[1] = 1
    /\ Len(savedAtRefresh) = 2

\* C12 (as stated): when page 1 has no record the run ends with nothing
\* processed, no pin, one fetch and exactly one save of an empty map.
C12_OneSaveOfEmptyMap ==
    (pc = "done" /\ FirstFetchOk /\ srvSize[1] = 0 /\ driver = "closed")
        => /\ current_limit = 0
           /\ folium_map = <<>>
           /\ fetched = <<1>>
           /\ saves = 1

\* C12 (amended): when page 1 has no record the run ends with nothing
\* processed, no pin, one fetch and no reload; the empty map is saved twice,
\* at initialization and by the teardown, and the teardown save is missing
\* only when closing the viewer fails, which leaves no file.
C12_EmptyFirstPage ==
    (pc = "done" /\ FirstFetchOk /\ srvSize[1] = 0)
        => /\ current_limit = 0
           /\ folium_map = <<>>
           /\ fetched = <<1>>
           /\ reloads = 0
           /\ IF driver = "closed"
                THEN saves = 2 /\ artifactExists /\ artifact = <<>>
                ELSE saves = 1 /\ ~artifactExists

\* C12 witness: page 1 came back empty although the API reported several
\* pages, and the run ended with the empty map saved by the teardown.
C12_Witness ==
    /\ pc = "done"
    /\ FirstFetchOk
    /\ srvSize[1] = 0
    /\ srvPages > 1
    /\ driver = "closed"
    /\ saves = 2
    /\ artifactExists

\* C13: when the first page fails validation, whichever field is at fault,
\* the run aborts with the validator's error kind (the one raised for a
\* missing or non-sequence results field) before any pin is added, and the
\* artifact at the end is the empty map.
C13_SchemaErrorOnFirstPage ==
    (Len(fetched) = 1 /\ exc \in FetchErrors \ {"FlickrError"})
        => /\ exc = "AssertionError"
           /\ folium_map = <<>>
           /\ (pc = "done" /\ driver = "closed")
                => (artifactExists /\ artifact = <<>>)

\* C14: in every state the pins of the map are a prefix of the records of
\* page 1, page 2, ... in page order and in the received order.
C14_PinsArePrefix == IsPrefix(folium_map, RecordsOfPages(srvPages))

\* C14 witness: every record of page 1 and a record of page 2 are pinned.
C14_Witness ==
    /\ srvSize[1] = 2
    /\ Len(folium_map) = 3
    /\ folium_map[3] = <<2, 1>>

\* C15: when the first page reports one total page, the whole run issues
\* exactly one fetch.
C15_SinglePageOneFetch ==
    (pc = "done" /\ total_pages = 1) => fetched = <<1>>

\* C16: with several pages, no limit and no empty page, the pages fetched
\* when parse() returns are exactly 1, 2, ..., totalPages.
C16_EveryPageFetchedOnce ==
    (ParseReturned /\ FirstFetchOk /\ limit = 0 /\ AllPagesNonEmpty
       /\ srvPages > 1)
        => fetched = [i \in 1..srvPages |-> i]

\* C17: when closing the viewer fails at teardown, the final map is still
\* saved and the teardown raises no error.
C17_CloseFailureIgnored ==
    [][(pc = "exit" /\ driver' # "closed")
         => /\ artifactExists'
            /\ artifact' = folium_map
            /\ exitCode' = 0]_vars

\* C18: once the limit has been reached no step issues a fetch (stated for
\* runs of several pages, where the fetch after a single page plays no part).
C18_NoFetchAfterLimit ==
    [][(LimitReached(limit, current_limit) /\ total_pages > 1)
         => fetched' = fetched]_vars

\* C19: every step that issues a viewer reload saves the map first, so at
\* the reload the file exists and holds exactly the pins added so far.
C19_SaveBeforeReload ==
    [][reloads' # reloads
         => /\ saves' = saves + 1
            /\ artifactExists'
            /\ artifact' = folium_map'
            /\ Len(artifact') = current_limit']_vars

\* C19 witness: a second reload was issued and the viewer shows every pin.
C19_Witness ==
    /\ reloads = 2
    /\ Len(folium_map) >= 2
    /\ artifact = folium_map
    /\ viewerShows = folium_map

\* C20: from the end of initialization to the end of the run, a file exists
\* at the artifact path in every state.
C20_ArtifactAlwaysExists == pc # "start" => artifactExists

====
